---- MODULE Spec2Model ----
(***************************************************************************)
(* Model of src/downloder.py: the worker thread DownloadThread.run(), the  *)
(* cancellation entry point DownloadThread.stop() called from the GUI      *)
(* thread, the child process they share, and the line tracker inside the   *)
(* loop of run().  Text is modelled as sequences of one-character strings  *)
(* so that strip(), the two regular expressions, int() and the f-strings   *)
(* are computed, not assumed.                                              *)
(***************************************************************************)
EXTENDS Integers, Sequences, FiniteSets, TLC

\* ---------------------------------------------------------------- bounds
\* lines the child may write in the concurrent specification
MaxLines == 2
\* lines the child may write in the tracker-only specification
MaxTrackerLines == 30
\* lines that may sit unread in the pipe
PipeCap == 1
\* number of times stop() may be called
MaxStops == 2
\* downloads the user may start in the window
MaxJobs == 2

\* ------------------------------------------------------------- constants
\* limbs of the significand of a Python float (IEEE 754 binary64, 53 bits)
MantLimbs == 5

\* ------------------------------------------------------------------ text
FoundLit ==
    <<"F", "o", "u", "n", "d">>
SongsInLit ==
    <<"s", "o", "n", "g", "s", " ", "i", "n", " ">>
DownloadedLit ==
    <<"D", "o", "w", "n", "l", "o", "a", "d", "e", "d">>
TotalFoundPrefix ==
    <<"T", "o", "t", "a", "l", " ", "s", "o", "n", "g", "s", " ", "f", "o", "u", "n", "d", ":", " ">>
DownloadingPrefix ==
    <<"D", "o", "w", "n", "l", "o", "a", "d", "i", "n", "g", " ">>
LineFound50 ==
    <<"F", "o", "u", "n", "d", " ", "5", "0", " ", "s", "o", "n", "g", "s", " ", "i", "n", " ", "x", "\n">>
LineFound0 ==
    <<"F", "o", "u", "n", "d", " ", "0", " ", "s", "o", "n", "g", "s", " ", "i", "n", " ", "x", "\n">>
LineFound23 ==
    <<"F", "o", "u", "n", "d", " ", "2", "3", " ", "s", "o", "n", "g", "s", " ", "i", "n", " ", "\"", "M", "y", " ", "P", "l", "a", "y", "l", "i", "s", "t", "\"", " ", "(", "M", "y", " ", "P", "l", "a", "y", "l", "i", "s", "t", ")", "\n">>
LineBoth ==
    <<"F", "o", "u", "n", "d", " ", "1", " ", "s", "o", "n", "g", "s", " ", "i", "n", " ", "D", "o", "w", "n", "l", "o", "a", "d", "e", "d", " ", "\"", "a", "\"", ":", "\n">>
LineDownloaded ==
    <<" ", "D", "o", "w", "n", "l", "o", "a", "d", "e", "d", " ", "\"", "A", "r", "t", "i", "s", "t", " ", "-", " ", "T", "i", "t", "l", "e", "\"", ":", "\n">>
LineNoTail ==
    <<"F", "o", "u", "n", "d", " ", "7", " ", "s", "o", "n", "g", "s", " ", "i", "n", "\n">>
LineOther ==
    <<"\t", "h", "e", "l", "l", "o", " ", "\n">>

Lines ==
    {LineFound50, LineFound0, LineFound23, LineBoth, LineDownloaded, LineNoTail,
     LineOther}

Digits == <<"0", "1", "2", "3", "4", "5", "6", "7", "8", "9">>

IsSpace(c) == c \in {" ", "\t", "\n", "\r"}

IsDigit(c) == \E i \in 1..10 : Digits[i] = c

DigitVal(c) == (CHOOSE i \in 1..10 : Digits[i] = c) - 1

\* str.strip(): drop the leading and the trailing whitespace
RECURSIVE LStrip(_)
LStrip(s) ==
    IF s # <<>> /\ IsSpace(Head(s)) THEN LStrip(Tail(s)) ELSE s

RECURSIVE RStrip(_)
RStrip(s) ==
    IF s # <<>> /\ IsSpace(s[Len(s)]) THEN RStrip(SubSeq(s, 1, Len(s) - 1)) ELSE s

Strip(s) == RStrip(LStrip(s))

\* int(str) on a run of decimal digits
RECURSIVE ParseInt(_)
ParseInt(s) ==
    IF s = <<>> THEN 0
    ELSE 10 * ParseInt(SubSeq(s, 1, Len(s) - 1)) + DigitVal(s[Len(s)])

\* str(int) for a non-negative integer, as the f-strings format it
RECURSIVE IntToStr(_)
IntToStr(n) ==
    IF n < 10 THEN <<Digits[n + 1]>>
    ELSE IntToStr(n \div 10) \o <<Digits[(n % 10) + 1]>>

\* the literal lit occurs in s at position i
LitAt(s, i, lit) ==
    /\ i + Len(lit) - 1 <= Len(s)
    /\ \A k \in 1..Len(lit) : s[i + k - 1] = lit[k]

\* length of the longest run of whitespace / digits / non-quotes from i
RECURSIVE SpaceRun(_, _)
SpaceRun(s, i) ==
    IF i <= Len(s) /\ IsSpace(s[i]) THEN 1 + SpaceRun(s, i + 1) ELSE 0

RECURSIVE DigitRun(_, _)
DigitRun(s, i) ==
    IF i <= Len(s) /\ IsDigit(s[i]) THEN 1 + DigitRun(s, i + 1) ELSE 0

RECURSIVE NonQuoteRun(_, _)
NonQuoteRun(s, i) ==
    IF i <= Len(s) /\ s[i] # "\"" THEN 1 + NonQuoteRun(s, i + 1) ELSE 0

\* Found\s+(\d+)\s+songs in .*   matched at position i
FoundMatchAt(s, i) ==
    LET a == i + Len(FoundLit)
        b == a + SpaceRun(s, a)
        c == b + DigitRun(s, b)
        d == c + SpaceRun(s, c)
    IN  /\ LitAt(s, i, FoundLit)
        /\ b > a
        /\ c > b
        /\ d > c
        /\ LitAt(s, d, SongsInLit)

\* found_songs_pattern.search(s) is not None
FoundMatches(s) == \E i \in 1..Len(s) : FoundMatchAt(s, i)

\* found_songs_match.group(1) of the leftmost match
FoundGroup1(s) ==
    LET i == CHOOSE j \in 1..Len(s) :
                 FoundMatchAt(s, j) /\ \A k \in 1..(j - 1) : ~FoundMatchAt(s, k)
        a == i + Len(FoundLit)
        b == a + SpaceRun(s, a)
    IN  SubSeq(s, b, b + DigitRun(s, b) - 1)

\* Downloaded\s+"[^"]+":   matched at position i
DownloadedMatchAt(s, i) ==
    LET a == i + Len(DownloadedLit)
        b == a + SpaceRun(s, a)
        c == b + 1
        d == c + NonQuoteRun(s, c)
    IN  /\ LitAt(s, i, DownloadedLit)
        /\ b > a
        /\ LitAt(s, b, <<"\"">>)
        /\ d > c
        /\ LitAt(s, d, <<"\"", ":">>)

\* downloaded_pattern.search(s) is not None
DownloadedMatches(s) == \E i \in 1..Len(s) : DownloadedMatchAt(s, i)

\* ------------------------------------------------- float arithmetic
\* A positive float is [m |-> its 53-bit significand as five limbs, the
\* first of one bit (always 1) and four of LimbBits bits, most significant
\* first, e |-> the exponent of the first bit].  Limbs keep every product
\* below 2^31; the operands covered are those below 2^18.
Limb == 8192

RECURSIVE Pow2(_)
Pow2(n) == IF n = 0 THEN 1 ELSE 2 * Pow2(n - 1)

RECURSIVE ExpUp(_, _, _)
ExpUp(d, t, e) == IF t * Pow2(e + 1) <= d THEN ExpUp(d, t, e + 1) ELSE e

RECURSIVE ExpDown(_, _, _)
ExpDown(d, t, k) == IF d * Pow2(k) >= t THEN k ELSE ExpDown(d, t, k + 1)

\* long division: the next limbs of r/den until the significand is full
RECURSIVE DivLimbs(_, _, _)
DivLimbs(r, den, limbs) ==
    IF Len(limbs) = MantLimbs THEN [m |-> limbs, rem |-> r]
    ELSE DivLimbs((r * Limb) % den, den, Append(limbs, (r * Limb) \div den))

\* significand + 1, the carry running from limb i upwards
RECURSIVE IncLimbs(_, _)
IncLimbs(m, i) ==
    IF i = 1 THEN [m EXCEPT ![1] = m[1] + 1]
    ELSE IF m[i] + 1 < Limb THEN [m EXCEPT ![i] = m[i] + 1]
         ELSE IncLimbs([m EXCEPT ![i] = 0], i - 1)

\* round to nearest: add one when up; 2^53 renormalises to 2^52, e + 1
RoundUp(m, e, up) ==
    IF ~up THEN [m |-> m, e |-> e]
    ELSE LET n == IncLimbs(m, MantLimbs)
         IN  IF n[1] = 2 THEN [m |-> [n EXCEPT ![1] = 1], e |-> e + 1]
             ELSE [m |-> n, e |-> e]

\* downloaded_songs / total_songs: true division, correctly rounded
\* (ties to even)
FloatDiv(d, t) ==
    LET e   == IF d >= t THEN ExpUp(d, t, 0) ELSE 0 - ExpDown(d, t, 1)
        num == IF e >= 0 THEN d ELSE d * Pow2(0 - e)
        den == IF e >= 0 THEN t * Pow2(e) ELSE t
        q   == DivLimbs(num - den, den, <<1>>)
        up  == \/ 2 * q.rem > den
               \/ 2 * q.rem = den /\ q.m[MantLimbs] % 2 = 1
    IN  RoundUp(q.m, e, up)

\* the exact product significand * 100, limb by limb from the last; the
\* first limb of the result holds the 7 or 8 leading bits
RECURSIVE MulLimbs(_, _, _)
MulLimbs(m, i, carry) ==
    IF i = 1 THEN <<100 * m[1] + carry>>
    ELSE LET v == 100 * m[i] + carry
         IN  Append(MulLimbs(m, i - 1, v \div Limb), v % Limb)

\* f * 100.0, correctly rounded (ties to even): the product is shifted
\* right by s bits to 53 bits and the s bits shifted out decide the rounding
FloatMul100(f) ==
    LET p    == MulLimbs(f.m, MantLimbs, 0)
        s    == IF p[1] >= 128 THEN 7 ELSE 6
        w    == Pow2(s)
        kept == [i \in 1..MantLimbs |->
                    IF i = 1 THEN p[1] \div w
                    ELSE (p[i - 1] % w) * (Limb \div w) + p[i] \div w]
        out  == p[MantLimbs] % w
        up   == \/ 2 * out > w
                \/ 2 * out = w /\ kept[MantLimbs] % 2 = 1
    IN  RoundUp(kept, f.e + s, up)

\* int(f): truncation towards zero, for f < 2^27
FloatToInt(f) ==
    IF f.e < 0 THEN 0
    ELSE IF f.e <= 13 THEN (f.m[1] * Limb + f.m[2]) \div Pow2(13 - f.e)
    ELSE ((f.m[1] * Limb + f.m[2]) * Limb + f.m[3]) \div Pow2(26 - f.e)

\* int((downloaded_songs / total_songs) * 100), downloaded_songs >= 1
ProgressPercentage(downloaded, total) ==
    FloatToInt(FloatMul100(FloatDiv(downloaded, total)))

\* ------------------------------------------------------------ signals
GenericErrorMsg ==
    "An error occurred during the download process. Please check the log for details."

SpawnErrorMsg == "[Errno 2] No such file or directory: 'spotdl'"

NoneStdoutMsg == "'NoneType' object has no attribute 'stdout'"

NoneWaitMsg == "'NoneType' object has no attribute 'wait'"

NoneReturncodeMsg == "'NoneType' object has no attribute 'returncode'"

Event(sig, num, text, msg) == [sig |-> sig, num |-> num, text |-> text, msg |-> msg]

LogEvent(text) == Event("log", 0, text, "")

TotalEvent(n) == Event("total_songs_signal", n, <<>>, "")

DownloadedEvent(n) == Event("downloaded_songs_signal", n, <<>>, "")

ProgressEvent(pct, status) == Event("progress", pct, status, "")

FinishedEvent == Event("finished", 0, <<>>, "")

ErrorEvent(msg) == Event("error", 0, <<>>, msg)

CountSig(evs, sig) == Cardinality({i \in 1..Len(evs) : evs[i].sig = sig})

\* ------------------------------------------------------------ tracker
\* total_songs = 0
InitialTotal == 0

CleanLineRaw(line) == line

\* clean_line = line.strip()
CleanLine(line) == Strip(line)

ChecksFoundAlways(total_set) == TRUE

\* if not total_songs_set:
ChecksFound(total_set) == ~total_set

NextDownloadedByTwo(downloaded) == downloaded + 2

\* downloaded_songs += 1
NextDownloaded(downloaded) == downloaded + 1

EmitsProgressAboveOne(total) == total > 1

\* if total_songs > 0:
EmitsProgress(total) == total > 0

\* status = f"Downloading {downloaded_songs}/{total_songs}"
StatusText(downloaded, total) ==
    DownloadingPrefix \o IntToStr(downloaded) \o <<"/">> \o IntToStr(total)

\* f"Total songs found: {total_songs}"
TotalFoundText(total) == TotalFoundPrefix \o IntToStr(total)

OnLineNoContinue(line, total, total_set, downloaded) ==
    LET clean == CleanLine(line)
        found == ChecksFound(total_set) /\ FoundMatches(clean)
        n     == IF found THEN ParseInt(FoundGroup1(clean)) ELSE total
        d     == IF DownloadedMatches(clean) THEN NextDownloaded(downloaded)
                 ELSE downloaded
    IN  [total |-> n, total_set |-> (total_set \/ found), downloaded |-> d,
         events |-> <<LogEvent(clean)>> \o
                    (IF found
                     THEN <<TotalEvent(n), LogEvent(TotalFoundText(n))>>
                     ELSE <<>>) \o
                    (IF d # downloaded THEN <<DownloadedEvent(d)>> ELSE <<>>) \o
                    (IF d # downloaded /\ EmitsProgress(n)
                     THEN <<ProgressEvent(ProgressPercentage(d, n),
                                          StatusText(d, n))>>
                     ELSE <<>>)]

\* the body of the for loop after the cancellation test: the new values of
\* the three locals and the signals emitted, in order
OnLine(line, total, total_set, downloaded) ==
    LET clean == CleanLine(line)
    IN  IF ChecksFound(total_set) /\ FoundMatches(clean)
        THEN LET n == ParseInt(FoundGroup1(clean))
             IN  [total |-> n, total_set |-> TRUE, downloaded |-> downloaded,
                  events |-> <<LogEvent(clean), TotalEvent(n),
                               LogEvent(TotalFoundText(n))>>]
        ELSE IF DownloadedMatches(clean)
        THEN LET d == NextDownloaded(downloaded)
             IN  [total |-> total, total_set |-> total_set, downloaded |-> d,
                  events |-> <<LogEvent(clean), DownloadedEvent(d)>> \o
                             (IF EmitsProgress(total)
                              THEN <<ProgressEvent(ProgressPercentage(d, total),
                                                   StatusText(d, total))>>
                              ELSE <<>>)]
        ELSE [total |-> total, total_set |-> total_set, downloaded |-> downloaded,
              events |-> <<LogEvent(clean)>>]

OutcomeIgnoringStatus(running, returncode) ==
    IF running THEN <<FinishedEvent>> ELSE <<>>

\* lines 94-98: the signal run() emits after process.wait()
Outcome(running, returncode) ==
    IF running
    THEN IF returncode = 0 THEN <<FinishedEvent>>
         ELSE <<ErrorEvent(GenericErrorMsg)>>
    ELSE <<>>

\* -------------------------------------------------------------- state
VARIABLES
    pc,               \* position of the worker thread in run()
    spc,              \* position of the GUI thread in stop()
    stops,            \* calls of stop() so far
    process,          \* self.process: "None" or "P"
    is_running,       \* self._is_running
    child,            \* the spotdl process: "none", "running", "exited"
    exitStatus,       \* its exit status once exited
    budget,           \* lines the child may still write
    pending,          \* lines written and not yet read
    cur,              \* the line the loop holds
    total_songs, downloaded_songs, total_songs_set,
    events,           \* signals emitted by the last step, in order
    nFinished, nError, nLog, nTotalSig, nDownloadedSig,
    errorMsg,         \* argument of the last error signal
    consumed,         \* lines that reached the body of the loop
    matched,          \* of these, lines matching the downloaded pattern
    setLineMatched,   \* the line that set the total matched it too
    late,             \* lines that reached the body after stop() set the flag
    download_button,  \* self.download_button is enabled
    cancel_button,    \* self.cancel_button is enabled
    gpc,              \* position of the GUI thread in cancel_download()
    jobs,             \* DownloadThread objects created by start_download()
    queue,            \* finished/error signals of the worker not yet delivered
    stopBeforeExit    \* stop() was called while the child had not exited

vars ==
    <<pc, spc, stops, process, is_running, child, exitStatus, budget, pending,
      cur, total_songs, downloaded_songs, total_songs_set, events, nFinished,
      nError, nLog, nTotalSig, nDownloadedSig, errorMsg, consumed, matched,
      setLineMatched, late, download_button, cancel_button, gpc, jobs, queue,
      stopBeforeExit>>

trackerVars == <<total_songs, downloaded_songs, total_songs_set>>

childVars == <<child, exitStatus, budget, pending>>

stopVars == <<spc, stops, stopBeforeExit>>

histVars == <<consumed, matched, setLineMatched, late>>

guiVars == <<download_button, cancel_button, jobs>>

\* the signals evs as entries of the GUI thread's event queue
Posted(evs) == [i \in 1..Len(evs) |-> evs[i].sig]

\* record the signals evs as emitted by this step
Emit(evs) ==
    /\ events' = evs
    /\ nFinished' = nFinished + CountSig(evs, "finished")
    /\ nError' = nError + CountSig(evs, "error")
    /\ nLog' = nLog + CountSig(evs, "log")
    /\ nTotalSig' = nTotalSig + CountSig(evs, "total_songs_signal")
    /\ nDownloadedSig' = nDownloadedSig + CountSig(evs, "downloaded_songs_signal")
    /\ errorMsg' = IF \E i \in 1..Len(evs) : evs[i].sig = "error"
                   THEN (CHOOSE e \in {evs[i] : i \in 1..Len(evs)} : e.sig = "error").msg
                   ELSE errorMsg

RaiseSilently(msg) ==
    /\ pc' = "done"
    /\ Emit(<<>>)
    /\ queue' = queue

\* except Exception as e: self.error.emit(str(e)); emitted from the worker
\* thread, the signal is queued for the GUI thread
Raise(msg) ==
    /\ pc' = "done"
    /\ Emit(<<ErrorEvent(msg)>>)
    /\ queue' = Append(queue, "error")

InitCommon ==
    /\ pc = "popen"
    /\ spc = "idle"
    /\ stops = 0
    /\ process = "None"
    /\ is_running = TRUE
    /\ child = "none"
    /\ exitStatus = 0
    /\ pending = 0
    /\ cur = <<>>
    /\ total_songs = InitialTotal
    /\ downloaded_songs = 0
    /\ total_songs_set = FALSE
    /\ events = <<>>
    /\ nFinished = 0
    /\ nError = 0
    /\ nLog = 0
    /\ nTotalSig = 0
    /\ nDownloadedSig = 0
    /\ errorMsg = ""
    /\ consumed = 0
    /\ matched = 0
    /\ setLineMatched = FALSE
    /\ late = 0
    /\ stopBeforeExit = FALSE

\* the window once start_download() has started the thread
Started ==
    /\ download_button = FALSE
    /\ cancel_button = TRUE
    /\ gpc = "idle"
    /\ jobs = 1
    /\ queue = <<>>

Init ==
    /\ InitCommon
    /\ Started
    /\ budget = MaxLines

TrackerInit ==
    /\ InitCommon
    /\ Started
    /\ budget = MaxTrackerLines

\* --------------------------------------------------- worker: run()
\* subprocess.Popen(...) returns
Popen ==
    /\ pc = "popen"
    /\ pc' = "assign"
    /\ child' = "running"
    /\ Emit(<<>>)
    /\ UNCHANGED <<process, is_running, exitStatus, budget, pending, cur,
                   trackerVars, stopVars, histVars, guiVars, gpc, queue>>

\* subprocess.Popen(...) raises
PopenFails ==
    /\ pc = "popen"
    /\ Raise(SpawnErrorMsg)
    /\ UNCHANGED <<process, is_running, childVars, cur, trackerVars, stopVars,
                   histVars, guiVars, gpc>>

\* self.process = <the Popen object>; the three locals are initialised
AssignProcess ==
    /\ pc = "assign"
    /\ pc' = "loop"
    /\ process' = "P"
    /\ total_songs' = InitialTotal
    /\ downloaded_songs' = 0
    /\ total_songs_set' = FALSE
    /\ Emit(<<>>)
    /\ UNCHANGED <<is_running, childVars, cur, stopVars, histVars, guiVars,
                   gpc, queue>>

\* for line in self.process.stdout: the iterable is evaluated once
LoopEnter ==
    /\ pc = "loop"
    /\ IF process = "None"
       THEN Raise(NoneStdoutMsg)
       ELSE pc' = "iter" /\ Emit(<<>>) /\ queue' = queue
    /\ UNCHANGED <<process, is_running, childVars, cur, trackerVars, stopVars,
                   histVars, guiVars, gpc>>

\* the iterator yields the next line
ReadLine ==
    /\ pc = "iter"
    /\ pending > 0
    /\ \E l \in Lines : cur' = l
    /\ pending' = pending - 1
    /\ pc' = "check"
    /\ Emit(<<>>)
    /\ UNCHANGED <<process, is_running, child, exitStatus, budget,
                   trackerVars, stopVars, histVars, guiVars, gpc, queue>>

\* the iterator is exhausted: the child is gone and the pipe is empty
ReadEOF ==
    /\ pc = "iter"
    /\ pending = 0
    /\ child = "exited"
    /\ pc' = "wait"
    /\ Emit(<<>>)
    /\ UNCHANGED <<process, is_running, childVars, cur, trackerVars, stopVars,
                   histVars, guiVars, gpc, queue>>

BreaksNever(running) == FALSE

\* if not self._is_running:
BreaksLoop(running) == ~running

\* if not self._is_running: break
CheckRunning ==
    /\ pc = "check"
    /\ IF BreaksLoop(is_running)
       THEN pc' = "wait" /\ cur' = <<>>
       ELSE pc' = "body" /\ cur' = cur
    /\ Emit(<<>>)
    /\ UNCHANGED <<process, is_running, childVars, trackerVars, stopVars,
                   histVars, guiVars, gpc, queue>>

\* the rest of the loop body
Body ==
    /\ pc = "body"
    /\ LET r == OnLine(cur, total_songs, total_songs_set, downloaded_songs)
           m == DownloadedMatches(Strip(cur))
       IN  /\ total_songs' = r.total
           /\ total_songs_set' = r.total_set
           /\ downloaded_songs' = r.downloaded
           /\ Emit(r.events)
           /\ consumed' = consumed + 1
           /\ matched' = IF m THEN matched + 1 ELSE matched
           /\ setLineMatched' =
                  IF ~total_songs_set /\ r.total_set THEN m ELSE setLineMatched
           /\ late' = IF is_running THEN late ELSE late + 1
    /\ pc' = "iter"
    /\ cur' = <<>>
    /\ UNCHANGED <<process, is_running, childVars, stopVars, guiVars, gpc,
                   queue>>

\* self.process.wait(): self.process is read and the call starts
WaitEnter ==
    /\ pc = "wait"
    /\ IF process = "None"
       THEN Raise(NoneWaitMsg)
       ELSE pc' = "waiting" /\ Emit(<<>>) /\ queue' = queue
    /\ UNCHANGED <<process, is_running, childVars, cur, trackerVars, stopVars,
                   histVars, guiVars, gpc>>

\* wait() returns once the child has exited
WaitReturn ==
    /\ pc = "waiting"
    /\ child = "exited"
    /\ pc' = "test"
    /\ Emit(<<>>)
    /\ UNCHANGED <<process, is_running, childVars, cur, trackerVars, stopVars,
                   histVars, guiVars, gpc, queue>>

\* if self._is_running:
TestRunning ==
    /\ pc = "test"
    /\ pc' = IF is_running THEN "report" ELSE "done"
    /\ Emit(<<>>)
    /\ UNCHANGED <<process, is_running, childVars, cur, trackerVars, stopVars,
                   histVars, guiVars, gpc, queue>>

\* if self.process.returncode == 0: finished else: error
Report ==
    /\ pc = "report"
    /\ IF process = "None"
       THEN Raise(NoneReturncodeMsg)
       ELSE /\ pc' = "done"
            /\ Emit(Outcome(TRUE, exitStatus))
            /\ queue' = queue \o Posted(Outcome(TRUE, exitStatus))
    /\ UNCHANGED <<process, is_running, childVars, cur, trackerVars, stopVars,
                   histVars, guiVars, gpc>>

\* ------------------------------------------------ GUI thread: stop()
\* self._is_running = False
StopSetFlag ==
    /\ spc = "idle"
    /\ stops < MaxStops
    /\ is_running' = FALSE
    /\ stops' = stops + 1
    /\ stopBeforeExit' = (stopBeforeExit \/ child # "exited")
    /\ spc' = "poll"
    /\ Emit(<<>>)
    /\ UNCHANGED <<pc, process, childVars, cur, trackerVars, histVars,
                   guiVars, queue>>

\* if self.process and self.process.poll() is None:
StopPoll ==
    /\ spc = "poll"
    /\ spc' = IF process = "P" /\ child = "running" THEN "terminate" ELSE "idle"
    /\ Emit(<<>>)
    /\ UNCHANGED <<pc, stops, stopBeforeExit, process, is_running, childVars,
                   cur, trackerVars, histVars, guiVars, gpc, queue>>

\* self.process.terminate(): SIGTERM; the child may die of it, exit on its
\* own terms, or still be there when the call returns
StopTerminate ==
    /\ spc = "terminate"
    /\ spc' = "kill"
    /\ \/ UNCHANGED <<child, exitStatus>>
       \/ /\ child = "running"
          /\ child' = "exited"
          /\ exitStatus' \in {0, -15}
    /\ Emit(<<>>)
    /\ UNCHANGED <<pc, stops, stopBeforeExit, process, is_running, budget,
                   pending, cur, trackerVars, histVars, guiVars, gpc, queue>>

\* self.process.kill(): SIGKILL
StopKill ==
    /\ spc = "kill"
    /\ spc' = "clear"
    /\ IF child = "running"
       THEN child' = "exited" /\ exitStatus' = -9
       ELSE UNCHANGED <<child, exitStatus>>
    /\ Emit(<<>>)
    /\ UNCHANGED <<pc, stops, stopBeforeExit, process, is_running, budget,
                   pending, cur, trackerVars, histVars, guiVars, gpc, queue>>

\* self.process = None
StopClear ==
    /\ spc = "clear"
    /\ spc' = "emit"
    /\ process' = "None"
    /\ Emit(<<>>)
    /\ UNCHANGED <<pc, stops, stopBeforeExit, is_running, childVars, cur,
                   trackerVars, histVars, guiVars, gpc, queue>>

\* self.finished.emit()
StopEmit ==
    /\ spc = "emit"
    /\ spc' = "idle"
    /\ Emit(<<FinishedEvent>>)
    /\ UNCHANGED <<pc, stops, stopBeforeExit, process, is_running, childVars,
                   cur, trackerVars, histVars, guiVars, gpc, queue>>

\* ------------------------------------------------------- the child
\* spotdl writes one more line to its output
ChildWrite ==
    /\ child = "running"
    /\ budget > 0
    /\ pending < PipeCap
    /\ budget' = budget - 1
    /\ pending' = pending + 1
    /\ Emit(<<>>)
    /\ UNCHANGED <<pc, process, is_running, child, exitStatus, cur,
                   trackerVars, stopVars, histVars, guiVars, gpc, queue>>

\* spotdl exits by itself, with success or with a failure
ChildExit ==
    /\ child = "running"
    /\ child' = "exited"
    /\ exitStatus' \in {0, 1}
    /\ Emit(<<>>)
    /\ UNCHANGED <<pc, process, is_running, budget, pending, cur, trackerVars,
                   stopVars, histVars, guiVars, gpc, queue>>

\* ------------------------------------- GUI thread: the window
\* self.download_thread.isRunning()
IsRunning == pc \notin {"unstarted", "done"}

threadVars ==
    <<pc, process, is_running, childVars, cur, trackerVars, stopVars, histVars,
      events, nFinished, nError, nLog, nTotalSig, nDownloadedSig, errorMsg>>

\* start_download(), the inputs being valid: the buttons are switched and a
\* new DownloadThread is created, connected and started; self.download_thread
\* no longer refers to the previous one
StartDownload ==
    /\ gpc = "idle"
    /\ download_button
    /\ jobs < MaxJobs
    /\ download_button' = FALSE
    /\ cancel_button' = TRUE
    /\ jobs' = jobs + 1
    /\ pc' = "popen"
    /\ spc' = "idle"
    /\ stops' = 0
    /\ process' = "None"
    /\ is_running' = TRUE
    /\ child' = "none"
    /\ exitStatus' = 0
    /\ budget' = MaxLines
    /\ pending' = 0
    /\ cur' = <<>>
    /\ total_songs' = InitialTotal
    /\ downloaded_songs' = 0
    /\ total_songs_set' = FALSE
    /\ events' = <<>>
    /\ nFinished' = 0
    /\ nError' = 0
    /\ nLog' = 0
    /\ nTotalSig' = 0
    /\ nDownloadedSig' = 0
    /\ errorMsg' = ""
    /\ consumed' = 0
    /\ matched' = 0
    /\ setLineMatched' = FALSE
    /\ late' = 0
    /\ stopBeforeExit' = FALSE
    /\ UNCHANGED <<gpc, queue>>

\* cancel_download() up to the question: the Cancel button is clicked while
\* the thread is running and the dialog opens
CancelClick ==
    /\ gpc = "idle"
    /\ cancel_button
    /\ IsRunning
    /\ gpc' = "confirm"
    /\ UNCHANGED <<threadVars, guiVars, queue>>

\* the user answers No
CancelNo ==
    /\ gpc = "confirm"
    /\ gpc' = "idle"
    /\ UNCHANGED <<threadVars, guiVars, queue>>

\* the user answers Yes: self.download_thread.stop() is called
CancelYes ==
    /\ gpc = "confirm"
    /\ gpc' = "stop"
    /\ StopSetFlag

\* stop() has returned, its finished signal, if any, having called
\* download_complete() directly; the rest of cancel_download() runs: either
\* way the Download button is enabled and the Cancel button disabled
CancelDone ==
    /\ gpc = "stop"
    /\ spc = "idle"
    /\ gpc' = "idle"
    /\ download_button' = TRUE
    /\ cancel_button' = FALSE
    /\ UNCHANGED <<threadVars, jobs, queue>>

\* download_complete() / download_error(), run by the event loop (that of
\* the open question dialog included) for a queued signal of the worker
Deliver ==
    /\ gpc \in {"idle", "confirm"}
    /\ queue # <<>>
    /\ queue' = Tail(queue)
    /\ download_button' = TRUE
    /\ cancel_button' = FALSE
    /\ UNCHANGED <<threadVars, gpc, jobs>>

\* the window as constructed: no thread yet, Download enabled, Cancel not
GuiInit ==
    /\ pc = "unstarted"
    /\ spc = "idle"
    /\ stops = 0
    /\ process = "None"
    /\ is_running = TRUE
    /\ child = "none"
    /\ exitStatus = 0
    /\ budget = MaxLines
    /\ pending = 0
    /\ cur = <<>>
    /\ total_songs = InitialTotal
    /\ downloaded_songs = 0
    /\ total_songs_set = FALSE
    /\ events = <<>>
    /\ nFinished = 0
    /\ nError = 0
    /\ nLog = 0
    /\ nTotalSig = 0
    /\ nDownloadedSig = 0
    /\ errorMsg = ""
    /\ consumed = 0
    /\ matched = 0
    /\ setLineMatched = FALSE
    /\ late = 0
    /\ stopBeforeExit = FALSE
    /\ download_button = TRUE
    /\ cancel_button = FALSE
    /\ gpc = "idle"
    /\ jobs = 0
    /\ queue = <<>>

\* ------------------------------------------------- specifications
RunNext ==
    \/ Popen
    \/ PopenFails
    \/ AssignProcess
    \/ LoopEnter
    \/ ReadLine
    \/ ReadEOF
    \/ CheckRunning
    \/ Body
    \/ WaitEnter
    \/ WaitReturn
    \/ TestRunning
    \/ Report
    \/ ChildWrite
    \/ ChildExit

\* stop() is called, by whichever caller
StopCall == StopSetFlag /\ gpc' = gpc

StopNext ==
    \/ StopCall
    \/ StopPoll
    \/ StopTerminate
    \/ StopKill
    \/ StopClear
    \/ StopEmit

Next == RunNext \/ StopNext

\* run() and stop() interleaved
Spec == Init /\ [][Next]_vars

\* run() alone, stop() is never called
TrackerSpec == TrackerInit /\ [][RunNext]_vars

GuiNext ==
    \/ StartDownload
    \/ CancelClick
    \/ CancelNo
    \/ CancelYes
    \/ StopPoll
    \/ StopTerminate
    \/ StopKill
    \/ StopClear
    \/ StopEmit
    \/ CancelDone
    \/ Deliver
    \/ RunNext

\* the window: downloads started and cancelled through its two buttons
GuiSpec == GuiInit /\ [][GuiNext]_vars

\* this step is the loop body consuming the line cur
BodyStep == pc = "body" /\ pc' = "iter"

\* the steps of the worker thread itself; the step of the loop body is told
\* by the positions it leaves and reaches, which no other step of Next joins
WorkerNext ==
    \/ Popen
    \/ PopenFails
    \/ AssignProcess
    \/ LoopEnter
    \/ ReadLine
    \/ ReadEOF
    \/ CheckRunning
    \/ BodyStep
    \/ WaitEnter
    \/ WaitReturn
    \/ TestRunning
    \/ Report

\* the steps of stop() after its first statement
StopBody == StopPoll \/ StopTerminate \/ StopKill \/ StopClear \/ StopEmit

\* both threads are scheduled fairly: a thread that can take its next step
\* eventually takes it.  Nothing is assumed of the child process, which
\* writes and exits when it pleases, nor of the callers of stop()
FairSpec == Spec /\ WF_pc(WorkerNext) /\ WF_spc(StopBody)

\* ------------------------------------------------------- properties
HasSig(sig) == CountSig(events, sig) > 0

ProgressEvents == {events[i] : i \in {j \in 1..Len(events) : events[j].sig = "progress"}}

\* C1: cancel wins over the exit status: when stop() was called before the
\* child had exited and the child then exits with status 0, no `finished`
\* signal is emitted, neither by run() nor by stop().
C1_CancelWins ==
    (stopBeforeExit /\ child = "exited" /\ exitStatus = 0) => nFinished = 0

\* C2: at most one terminal signal (`finished` or `error`) per run, and once
\* stop() has recorded the cancellation no `finished` or `error` is emitted.
C2_OneOutcome ==
    /\ [](nFinished + nError <= 1)
    /\ [][~is_running => (nFinished' = nFinished /\ nError' = nError)]_vars

\* C3: when stop() is never called and the child's output is exhausted,
\* run() ends with exactly one `finished` and no `error` if the exit status
\* is 0, and with exactly one `error` carrying the generic message and no
\* `finished` otherwise; nothing terminal is emitted before run() ends.
C3_UncancelledOutcome ==
    /\ (stops = 0 /\ pc # "done") => (nFinished = 0 /\ nError = 0)
    /\ (stops = 0 /\ pc = "done" /\ child = "exited") =>
           IF exitStatus = 0
           THEN nFinished = 1 /\ nError = 0
           ELSE nFinished = 0 /\ nError = 1 /\ errorMsg = GenericErrorMsg

C3_Witness ==
    /\ stops = 0
    /\ pc = "done"
    /\ child = "exited"
    /\ exitStatus # 0
    /\ consumed > 0
    /\ nError = 1

\* C4 as stated: after each line downloaded_songs equals the number of
\* consumed lines that match the downloaded pattern, and never decreases.
C4_CountsEveryMatch ==
    /\ [](downloaded_songs = matched)
    /\ [][downloaded_songs' >= downloaded_songs]_vars

\* C4 as amended: after each line downloaded_songs equals the number of
\* consumed lines that match the downloaded pattern, not counting the line
\* that set the total, and never decreases.
C4_CountsMatchesButSetLine ==
    /\ [](downloaded_songs = matched - (IF setLineMatched THEN 1 ELSE 0))
    /\ [](nDownloadedSig = downloaded_songs)
    /\ [][downloaded_songs' >= downloaded_songs]_vars

C4_Witness ==
    /\ setLineMatched
    /\ matched = 3
    /\ downloaded_songs = 2

\* C5 as stated: total_songs_signal is emitted at most once, with the number
\* of the first line matching the total-found pattern, and every later line
\* matching that pattern leaves total, total_songs_set and downloaded alone.
C5_LaterFoundChangesNothing ==
    /\ [](nTotalSig <= 1)
    /\ [][(BodyStep /\ FoundMatches(Strip(cur))) =>
             IF total_songs_set
             THEN UNCHANGED trackerVars /\ nTotalSig' = nTotalSig
             ELSE /\ total_songs' = ParseInt(FoundGroup1(Strip(cur)))
                  /\ total_songs_set'
                  /\ nTotalSig' = 1
                  /\ events'[2] = TotalEvent(total_songs')
                  /\ (cur = LineFound23 => total_songs' = 23)]_vars

\* C5 as amended: total_songs_signal is emitted at most once, with the number
\* of the first line matching the total-found pattern; every later line
\* matching that pattern leaves total and total_songs_set alone and emits no
\* total_songs_signal, also when the first total was 0, and leaves downloaded
\* alone unless the line matches the downloaded pattern too, which counts.
C5_LaterFoundKeepsTotal ==
    /\ [](nTotalSig <= 1)
    /\ [][(BodyStep /\ FoundMatches(Strip(cur))) =>
             IF total_songs_set
             THEN /\ UNCHANGED <<total_songs, total_songs_set, nTotalSig>>
                  /\ downloaded_songs' =
                         IF DownloadedMatches(Strip(cur))
                         THEN downloaded_songs + 1 ELSE downloaded_songs
             ELSE /\ total_songs' = ParseInt(FoundGroup1(Strip(cur)))
                  /\ total_songs_set'
                  /\ nTotalSig' = 1
                  /\ events'[2] = TotalEvent(total_songs')
                  /\ (cur = LineFound23 => total_songs' = 23)]_vars

C5_Witness ==
    /\ total_songs_set
    /\ total_songs = 0
    /\ nTotalSig = 1
    /\ events = <<LogEvent(Strip(LineFound23))>>

\* C6: `progress` is never emitted before total_songs_signal, and a line
\* counted as downloaded emits it exactly when total is set and above 0.
C6_ProgressNeedsTotal ==
    /\ HasSig("progress") => nTotalSig >= 1
    /\ HasSig("progress") => HasSig("downloaded_songs_signal")
    /\ HasSig("downloaded_songs_signal") =>
           (HasSig("progress") <=> (total_songs_set /\ total_songs > 0))

C6_Witness ==
    /\ HasSig("progress")
    /\ total_songs = 1
    /\ nTotalSig = 1

\* C7: every percentage emitted on `progress` is in 0..100.
C7_PercentageInRange ==
    \A e \in ProgressEvents : e.num \in 0..100

\* C8: every `progress` carries floor(downloaded * 100 / total) and a status
\* text naming that downloaded and total.
C8_PercentageIsFloor ==
    \A e \in ProgressEvents :
        /\ total_songs > 0
        /\ e.num = (downloaded_songs * 100) \div total_songs
        /\ e.text = StatusText(downloaded_songs, total_songs)

\* C9 as stated: every consumed line emits exactly one `log`, carrying the
\* trimmed line, and the number of `log` signals equals the number of lines.
C9_OneLogPerLine ==
    /\ [](nLog = consumed)
    /\ [][BodyStep =>
             /\ CountSig(events', "log") = 1
             /\ events'[1] = LogEvent(Strip(cur))]_vars

\* C9 as amended: every consumed line first emits one `log` carrying the
\* trimmed line; the line that sets the total emits one more `log`,
\* "Total songs found: N", and no other line does; the number of `log`
\* signals equals the number of lines plus one once the total is set.
C9_OneLogPerLinePlusTotal ==
    /\ [](nLog = consumed + (IF total_songs_set THEN 1 ELSE 0))
    /\ [][BodyStep =>
             /\ events'[1] = LogEvent(Strip(cur))
             /\ (cur = LineOther => events'[1].text = <<"h", "e", "l", "l", "o">>)
             /\ IF ~total_songs_set /\ total_songs_set'
                THEN /\ CountSig(events', "log") = 2
                     /\ events'[3] = LogEvent(TotalFoundText(total_songs'))
                ELSE CountSig(events', "log") = 1]_vars

C9_Witness ==
    /\ total_songs_set
    /\ consumed = 3
    /\ nLog = 4
    /\ events = <<LogEvent(<<"h", "e", "l", "l", "o">>)>>

\* C10: whenever stop() has been called and has returned, the child process
\* is not running.
C10_CancelTerminatesChild ==
    (stops >= 1 /\ spc = "idle") => child # "running"

\* C11: once stop() has set the flag, no line read afterwards reaches the
\* body of the loop, so none of `log`, total_songs_signal,
\* downloaded_songs_signal and `progress` is emitted for it; at most the one
\* line that had already passed the flag test is still processed.
C11_NoLineAfterCancel ==
    /\ [](late <= 1)
    /\ [][~is_running => ~is_running']_vars
    /\ [][(~is_running /\ pc \in {"iter", "check"}) =>
             /\ pc' # "body"
             /\ nLog' = nLog
             /\ nTotalSig' = nTotalSig
             /\ nDownloadedSig' = nDownloadedSig
             /\ consumed' = consumed]_vars

\* a line written by the child was read after the flag was set and dropped
C11_Witness ==
    /\ ~is_running
    /\ pc = "wait"
    /\ budget = MaxLines - 1
    /\ pending = 0
    /\ consumed = 0

\* this step is a statement of stop()
StopStep == spc' # spc

\* C12: stop() on a process that has already exited or was never started
\* kills nothing and emits no signal, and a second stop() after a first one
\* changes no state and emits nothing.
C12_StopIdempotent ==
    /\ [][(spc = "poll" /\ StopStep /\ (process = "None" \/ child # "running")) =>
             /\ spc' = "idle"
             /\ UNCHANGED <<process, child, exitStatus, nFinished, nError>>]_vars
    /\ [][(StopStep /\ stops' >= 2) =>
             UNCHANGED <<is_running, process, child, exitStatus, nFinished,
                         nError>>]_vars

\* C13: when Popen raises, run() ends in its except branch having emitted
\* exactly one `error`, carrying the text of the exception, and nothing else:
\* no `finished`, no `log`, no total, downloaded or progress signal.
C13_SpawnFailure ==
    /\ [](pc = "done" /\ child = "none" =>
             /\ nError = 1
             /\ errorMsg = SpawnErrorMsg
             /\ nFinished = 0
             /\ nLog = 0
             /\ nTotalSig = 0
             /\ nDownloadedSig = 0
             /\ consumed = 0)
    /\ [][(pc = "popen" /\ pc' = "done") =>
             events' = <<ErrorEvent(SpawnErrorMsg)>>]_vars

C13_Witness ==
    /\ pc = "done"
    /\ child = "none"
    /\ nError = 1
    /\ events = <<ErrorEvent(SpawnErrorMsg)>>

\* C14: per line the total-found pattern is tested only while the total is
\* unset; the line that sets the total is not tested against the downloaded
\* pattern, so downloaded is unchanged by it even if it contains a downloaded
\* match; every other line, and so every line once the total is set, is
\* tested against the downloaded pattern only.
C14_MatchingOrder ==
    [][BodyStep =>
          LET clean == Strip(cur)
              dl    == CountSig(events', "downloaded_songs_signal")
              tot   == CountSig(events', "total_songs_signal")
          IN  IF ~total_songs_set /\ FoundMatches(clean)
              THEN /\ total_songs_set'
                   /\ tot = 1
                   /\ dl = 0
                   /\ downloaded_songs' = downloaded_songs
                   /\ (cur = LineBoth => total_songs' = 1)
              ELSE /\ UNCHANGED <<total_songs, total_songs_set>>
                   /\ tot = 0
                   /\ dl = (IF DownloadedMatches(clean) THEN 1 ELSE 0)
                   /\ downloaded_songs' = downloaded_songs + dl
                   /\ (cur = LineBoth => downloaded_songs' = downloaded_songs + 1)
                   /\ (cur = LineFound23 => UNCHANGED trackerVars)]_vars

\* a line matching both patterns set the total uncounted, and came again
C14_Witness ==
    /\ setLineMatched
    /\ total_songs = 1
    /\ matched = 2
    /\ downloaded_songs = 1
    /\ HasSig("progress")

\* C15: whenever the worker is about to execute self.process.wait() or to
\* read self.process.returncode, self.process is not None, and the worker
\* never reports the error of an attribute looked up on None.
C15_HandleValid ==
    /\ pc \in {"wait", "report"} => process = "P"
    /\ errorMsg \notin {NoneStdoutMsg, NoneWaitMsg, NoneReturncodeMsg}

\* C16: the Download button is enabled only when no worker is still
\* running, and start_download() never creates a second worker while the
\* previous one has not returned from run().
C16_SingleActiveJob ==
    /\ [](download_button => ~IsRunning)
    /\ [][jobs' = jobs + 1 => ~IsRunning]_vars

\* C17: once stop() has been called, the worker's run() eventually returns,
\* wherever run() was when stop() happened.
C17_WorkerReturns == (stops >= 1) ~> (pc = "done")

====
